---- MODULE Spec2Model ----
(***************************************************************************)
(* One run of pr-assigner/assign_assignees.js: fetch the pull request,     *)
(* load the user map, build the candidate pool, draw assignees at random   *)
(* without replacement, add them through the API and notify the webhook.   *)
(***************************************************************************)
EXTENDS Integers, Sequences, FiniteSets, TLC

\* ------------------------------------------------------------------ bounds
\* Largest number of assignees the fetched pull request carries.
MaxAssignees == 2

\* ------------------------------------------------------- program constants
\* The assignment target of `needed = 2 - currentAssignees.length`.
Target == 2

\* ------------------------------------------------------------- input sets
\* Keys the user map file may hold, in the order the file lists them.
MapLogins == <<"alice", "bob", "carol", "dave">>
MapLoginSet == {MapLogins[i] : i \in 1..Len(MapLogins)}
\* A login that is never a key of the user map.
Outsider == "erin"
\* process.env values: an unset or empty variable is falsy.
Unset == ""
EventTypes == {"opened", "ready_for_review", "unassigned", "closed"}
Authors == {"alice", Outsider}
RemovedValues == {Unset, "alice", "bob"}
\* An entry of the user map: absent from the file, present without an
\* assign key (undefined, the default), present with assign: false.
EntryKinds == {"absent", "omitted", "false"}
\* What the file at USER_MAP_FILE_PATH is.
BadFiles == {"missing", "unparsable", "empty_document", "no_users"}

NoPR == [author |-> Unset, draft |-> FALSE, assignees |-> <<>>, fetched |-> FALSE]
NoMsg == [kind |-> "null", users |-> <<>>]

VARIABLES
    pc,              \* position of the async main function
    eventType,       \* process.env.EVENT_TYPE
    removedAssignee, \* process.env.REMOVED_ASSIGNEE
    userMapFile,     \* the file behind USER_MAP_FILE_PATH
    slackWebhook,    \* TRUE when process.env.SLACK_WEBHOOK is set
    pr,              \* the fetched pull request
    userMap,         \* sequence of [login, assign] entries, in key order
    candidates,
    available,
    needed,
    pool,
    toAdd,
    assigneesToAdd,  \* what assignPRsToUsers is about to send
    msg,
    addCalls,        \* assignee lists sent to POST .../assignees
    posts,           \* messages sent to the webhook
    trace,           \* every external call, in order, with its outcome
    exitCode         \* -1 while running, then the process exit status

vars == <<pc, eventType, removedAssignee, userMapFile, slackWebhook, pr,
          userMap, candidates, available, needed, pool, toAdd,
          assigneesToAdd, msg, addCalls, posts, trace, exitCode>>

env == <<eventType, removedAssignee, userMapFile, slackWebhook>>

\* ------------------------------------------------------------ list helpers
Range(s) == {s[i] : i \in 1..Len(s)}

RECURSIVE Filter(_, _)
\* Array.prototype.filter with the predicate given as the set of kept values.
Filter(s, keep) ==
    IF s = <<>> THEN <<>>
    ELSE IF Head(s) \in keep THEN <<Head(s)>> \o Filter(Tail(s), keep)
         ELSE Filter(Tail(s), keep)

\* Drawing with replacement: the element is read and left in the pool.
SpliceKeep(s, idx) == s

\* pool.splice(idx, 1) with a 0-based idx: the pool that is left.
Splice(s, idx) ==
    [i \in 1..(Len(s) - 1) |-> IF i <= idx THEN s[i] ELSE s[i + 1]]

\* pool.splice(idx, 1)[0]: the element taken out.
Spliced(s, idx) == s[idx + 1]

\* --------------------------------------------------------------- user map
RECURSIVE Entries(_, _)
\* The users mapping of a well-formed file: the keys present, in file order.
Entries(f, i) ==
    IF i > Len(MapLogins) THEN <<>>
    ELSE IF f[MapLogins[i]] = "absent" THEN Entries(f, i + 1)
         ELSE <<[login |-> MapLogins[i], assign |-> f[MapLogins[i]]]>>
              \o Entries(f, i + 1)

GoodFiles == {[kind |-> "ok", users |-> Entries(f, 1)] :
                  f \in [MapLoginSet -> EntryKinds]}
Files == GoodFiles \cup {[kind |-> k, users |-> <<>>] : k \in BadFiles}

\* getUserMap: readFile or yaml.parse throwing, or parsed being null, lands
\* in the catch and returns {}; a document without users returns {}.
GetUserMapResult(file) ==
    IF file.kind = "ok" THEN file.users ELSE <<>>

RECURSIVE AllUsers(_)
\* Object.entries(userMap).filter(([_, v]) => v.assign !== false).map(([k]) => k)
AllUsers(m) ==
    IF m = <<>> THEN <<>>
    ELSE IF Head(m).assign # "false" THEN <<Head(m).login>> \o AllUsers(Tail(m))
         ELSE AllUsers(Tail(m))

\* The author is left among the candidates.
KeepAuthor(users, author) == users

\* allUsers.filter(u => u !== author)
WithoutAuthor(users, author) == Filter(users, Range(users) \ {author})

\* The removed login is dropped whatever the event is.
ExcludeRemovedAlways(cands, ev, removed) ==
    IF removed # Unset
    THEN Filter(cands, Range(cands) \ {removed})
    ELSE cands

\* if (eventType === "unassigned" && removedAssignee) candidates = candidates.filter(...)
ExcludeRemoved(cands, ev, removed) ==
    IF ev = "unassigned" /\ removed # Unset
    THEN Filter(cands, Range(cands) \ {removed})
    ELSE cands

Candidates(m, p, ev, removed) ==
    ExcludeRemoved(WithoutAuthor(AllUsers(m), p.author), ev, removed)

\* The draft flag is not looked at.
ShouldAssignDraft(ev, p) ==
    \/ ev = "opened"
    \/ ev = "ready_for_review"
    \/ ev = "unassigned"

ShouldAssign(ev, p) ==
    \/ ev = "opened" /\ ~p.draft
    \/ ev = "ready_for_review"
    \/ ev = "unassigned"

\* A target of one assignee, and a target of three.
NeededOne(p) == (Target - 1) - Len(p.assignees)
NeededThree(p) == (Target + 1) - Len(p.assignees)

Needed(p) == Target - Len(p.assignees)

\* candidates.filter(u => !currentAssignees.includes(u))
Available(cands, p) == Filter(cands, Range(cands) \ Range(p.assignees))

\* The loop stops one element short of emptying the pool.
LoopCondOffByOne(added, n, rest) == Len(added) < n /\ Len(rest) > 1

\* while (toAdd.length < needed && pool.length > 0)
LoopCond(added, n, rest) == Len(added) < n /\ Len(rest) > 0

\* assignPRsToUsers: newAssignees.filter(a => !currentAssignees.includes(a))
AssigneesToAdd(newAssignees, p) ==
    Filter(newAssignees, Range(newAssignees) \ Range(p.assignees))

\* The message main composes once assignPRsToUsers has returned.
AddedMsg(ev, added, picked) ==
    IF Len(added) > 0
    THEN IF ev = "unassigned" /\ Len(picked) = 1
         THEN [kind |-> "removed_singular", users |-> added]
         ELSE IF ev = "unassigned"
              THEN [kind |-> "removed_plural", users |-> added]
              ELSE [kind |-> "update", users |-> added]
    ELSE NoMsg

\* ------------------------------------------------------- pull requests
RECURSIVE Ordered(_, _)
\* The sequence listing the members of S in the order of the sequence s.
Ordered(s, S) ==
    IF s = <<>> THEN <<>>
    ELSE IF Head(s) \in S THEN <<Head(s)>> \o Ordered(Tail(s), S)
         ELSE Ordered(Tail(s), S)

AssigneeLists ==
    {Ordered(MapLogins, S) : S \in {T \in SUBSET MapLoginSet : Cardinality(T) <= MaxAssignees}}

Snapshots ==
    [author : Authors, draft : BOOLEAN, assignees : AssigneeLists, fetched : {TRUE}]

\* ------------------------------------------------------------------ Init
Init ==
    /\ pc = "getPRDetails"
    /\ eventType \in EventTypes
    /\ removedAssignee \in RemovedValues
    /\ userMapFile \in Files
    /\ slackWebhook \in BOOLEAN
    /\ pr = NoPR
    /\ userMap = <<>>
    /\ candidates = <<>>
    /\ available = <<>>
    /\ needed = 0
    /\ pool = <<>>
    /\ toAdd = <<>>
    /\ assigneesToAdd = <<>>
    /\ msg = NoMsg
    /\ addCalls = <<>>
    /\ posts = <<>>
    /\ trace = <<>>
    /\ exitCode = -1

Call(op, result) == [op |-> op, result |-> result]

\* process.exit(1), or the event loop draining after main returns.
Exit(code) == pc' = "done" /\ exitCode' = code

\* -------------------------------------------------------------- actions
\* pr = await getPRDetails() resolves with the server's pull request.
GetPRDetailsOk ==
    /\ pc = "getPRDetails"
    /\ \E p \in Snapshots : pr' = p
    /\ trace' = Append(trace, Call("GET", "ok"))
    /\ pc' = "getUserMap"
    /\ UNCHANGED <<assigneesToAdd, env, userMap, candidates, available, needed, pool, toAdd,
                   msg, addCalls, posts, exitCode>>

\* getPRDetails() rejects: logged, process.exit(1).
GetPRDetailsFail ==
    /\ pc = "getPRDetails"
    /\ trace' = Append(trace, Call("GET", "throw"))
    /\ Exit(1)
    /\ UNCHANGED <<assigneesToAdd, env, pr, userMap, candidates, available, needed, pool,
                   toAdd, msg, addCalls, posts>>

\* A user map that cannot be loaded ends the run with status 1.
GetUserMapStrict ==
    /\ pc = "getUserMap"
    /\ IF userMapFile.kind = "ok"
       THEN /\ userMap' = userMapFile.users
            /\ candidates' = Candidates(userMap', pr, eventType, removedAssignee)
            /\ pc' = "shouldAssign"
            /\ exitCode' = exitCode
       ELSE /\ Exit(1)
            /\ UNCHANGED <<userMap, candidates>>
    /\ UNCHANGED <<assigneesToAdd, env, pr, available, needed, pool, toAdd,
                   msg, addCalls, posts, trace>>

\* userMap = await getUserMap(); allUsers; candidates.
GetUserMap ==
    /\ pc = "getUserMap"
    /\ userMap' = GetUserMapResult(userMapFile)
    /\ candidates' = Candidates(userMap', pr, eventType, removedAssignee)
    /\ pc' = "shouldAssign"
    /\ UNCHANGED <<assigneesToAdd, env, pr, available, needed, pool, toAdd, msg, addCalls,
                   posts, trace, exitCode>>

\* shouldAssign is false: main returns without doing anything.
SkipEvent ==
    /\ pc = "shouldAssign"
    /\ ~ShouldAssign(eventType, pr)
    /\ Exit(0)
    /\ UNCHANGED <<assigneesToAdd, env, pr, userMap, candidates, available, needed, pool,
                   toAdd, msg, addCalls, posts, trace>>

\* shouldAssign, needed <= 0: nothing to do (logged for unassigned).
EnoughAssignees ==
    /\ pc = "shouldAssign"
    /\ ShouldAssign(eventType, pr)
    /\ Needed(pr) <= 0
    /\ needed' = Needed(pr)
    /\ Exit(0)
    /\ UNCHANGED <<assigneesToAdd, env, pr, userMap, candidates, available, pool, toAdd,
                   msg, addCalls, posts, trace>>

\* shouldAssign, needed > 0: available, toAdd = [], pool = available.slice().
StartSelection ==
    /\ pc = "shouldAssign"
    /\ ShouldAssign(eventType, pr)
    /\ Needed(pr) > 0
    /\ needed' = Needed(pr)
    /\ available' = Available(candidates, pr)
    /\ pool' = available'
    /\ toAdd' = <<>>
    /\ pc' = "select"
    /\ UNCHANGED <<assigneesToAdd, env, pr, userMap, candidates, msg, addCalls, posts,
                   trace, exitCode>>

\* One iteration of the while loop, idx = Math.floor(Math.random() * pool.length).
Pick ==
    /\ pc = "select"
    /\ LoopCond(toAdd, needed, pool)
    /\ \E idx \in 0..(Len(pool) - 1) :
          /\ toAdd' = Append(toAdd, Spliced(pool, idx))
          /\ pool' = Splice(pool, idx)
    /\ UNCHANGED <<assigneesToAdd, pc, env, pr, userMap, candidates, available, needed, msg,
                   addCalls, posts, trace, exitCode>>

\* Loop over, toAdd non-empty: assignPRsToUsers(toAdd, pr) filters out the
\* current assignees; with nothing left it returns [] without a request,
\* msg stays null and main returns.
SelectionDone ==
    /\ pc = "select"
    /\ ~LoopCond(toAdd, needed, pool)
    /\ Len(toAdd) > 0
    /\ assigneesToAdd' = AssigneesToAdd(toAdd, pr)
    /\ IF Len(assigneesToAdd') > 0
       THEN pc' = "assign" /\ exitCode' = exitCode
       ELSE Exit(0)
    /\ UNCHANGED <<env, pr, userMap, candidates, available, needed, pool,
                   toAdd, msg, addCalls, posts, trace>>

\* Loop over, toAdd empty: else if (needed > 0 && available.length === 0)
\* sets the "no available candidates" message; if (msg) decides on notifySlack.
NoneSelected ==
    /\ pc = "select"
    /\ ~LoopCond(toAdd, needed, pool)
    /\ Len(toAdd) = 0
    /\ msg' = IF needed > 0 /\ Len(available) = 0
              THEN [kind |-> "no_candidates", users |-> <<>>]
              ELSE NoMsg
    /\ IF msg' # NoMsg
       THEN pc' = "notify" /\ exitCode' = exitCode
       ELSE Exit(0)
    /\ UNCHANGED <<env, pr, userMap, candidates, available, needed, pool,
                   toAdd, assigneesToAdd, addCalls, posts, trace>>

\* A failed request that does not stop the run.
AssignFailContinue ==
    /\ pc = "assign"
    /\ addCalls' = Append(addCalls, assigneesToAdd)
    /\ trace' = Append(trace, Call("ADD", "throw"))
    /\ msg' = AddedMsg(eventType, assigneesToAdd, toAdd)
    /\ pc' = "notify"
    /\ UNCHANGED <<env, pr, userMap, candidates, available, needed, pool,
                   toAdd, assigneesToAdd, posts, exitCode>>

\* assignPRsToUsers: the POST resolves, assigneesToAdd is returned and main
\* composes the message.
AssignOk ==
    /\ pc = "assign"
    /\ addCalls' = Append(addCalls, assigneesToAdd)
    /\ trace' = Append(trace, Call("ADD", "ok"))
    /\ msg' = AddedMsg(eventType, assigneesToAdd, toAdd)
    /\ IF msg' # NoMsg
       THEN pc' = "notify" /\ exitCode' = exitCode
       ELSE Exit(0)
    /\ UNCHANGED <<env, pr, userMap, candidates, available, needed, pool,
                   toAdd, assigneesToAdd, posts>>

\* assignPRsToUsers: the POST rejects: logged, process.exit(1).
AssignFail ==
    /\ pc = "assign"
    /\ addCalls' = Append(addCalls, assigneesToAdd)
    /\ trace' = Append(trace, Call("ADD", "throw"))
    /\ Exit(1)
    /\ UNCHANGED <<env, pr, userMap, candidates, available, needed, pool,
                   toAdd, assigneesToAdd, msg, posts>>

\* if (msg) notifySlack(msg): no SLACK_WEBHOOK, warn and return.
NotifySkipped ==
    /\ pc = "notify"
    /\ msg # NoMsg
    /\ ~slackWebhook
    /\ Exit(0)
    /\ UNCHANGED <<assigneesToAdd, env, pr, userMap, candidates, available, needed, pool,
                   toAdd, msg, addCalls, posts, trace>>

\* notifySlack: fetch resolves. node-fetch resolves for every HTTP response,
\* whatever its status, and the response is not looked at.
NotifyResolved ==
    /\ pc = "notify"
    /\ msg # NoMsg
    /\ slackWebhook
    /\ posts' = Append(posts, msg)
    /\ \E status \in {"ok", "http_error"} :
          trace' = Append(trace, Call("POST", status))
    /\ Exit(0)
    /\ UNCHANGED <<assigneesToAdd, env, pr, userMap, candidates, available, needed, pool,
                   toAdd, msg, addCalls>>

\* notifySlack: fetch rejects (network error): logged, process.exit(1).
NotifyFail ==
    /\ pc = "notify"
    /\ msg # NoMsg
    /\ slackWebhook
    /\ posts' = Append(posts, msg)
    /\ trace' = Append(trace, Call("POST", "throw"))
    /\ Exit(1)
    /\ UNCHANGED <<assigneesToAdd, env, pr, userMap, candidates, available, needed, pool,
                   toAdd, msg, addCalls>>

Next ==
    \/ GetPRDetailsOk
    \/ GetPRDetailsFail
    \/ GetUserMap
    \/ SkipEvent
    \/ EnoughAssignees
    \/ StartSelection
    \/ Pick
    \/ SelectionDone
    \/ NoneSelected
    \/ AssignOk
    \/ AssignFail
    \/ NotifySkipped
    \/ NotifyResolved
    \/ NotifyFail

Spec == Init /\ [][Next]_vars

TypeOK ==
    /\ pc \in {"getPRDetails", "getUserMap", "shouldAssign", "select",
               "assign", "notify", "done"}
    /\ exitCode \in {-1, 0, 1}
    /\ (pc = "done") <=> (exitCode # -1)

\* ------------------------------------------------- vocabulary of the claims
\* These restate the inputs of a run as sets, independently of the
\* operators above, so that the properties compare the code with them.
Min(a, b) == IF a < b THEN a ELSE b
Max(a, b) == IF a > b THEN a ELSE b

Distinct(s) == \A i, j \in 1..Len(s) : i # j => s[i] # s[j]

Cur == Len(pr.assignees)

\* The logins of the single add-assignees call, <<>> when there was none.
Sent == IF addCalls = <<>> THEN <<>> ELSE addCalls[1]

\* Keys of the users mapping of the file whose assign flag is not false.
AssignableKeys ==
    {l \in MapLoginSet :
        \E i \in 1..Len(userMapFile.users) :
            /\ userMapFile.users[i].login = l
            /\ userMapFile.users[i].assign # "false"}

\* Assignable keys that are neither the author nor a current assignee.
EligibleSet == (AssignableKeys \ {pr.author}) \ Range(pr.assignees)

\* The candidate pool of the run: the removed login leaves it on unassigned.
PoolSet ==
    IF eventType = "unassigned" /\ removedAssignee # Unset
    THEN EligibleSet \ {removedAssignee}
    ELSE EligibleSet

Attempted ==
    /\ pr.fetched
    /\ \/ eventType = "opened" /\ ~pr.draft
       \/ eventType = "ready_for_review"
       \/ eventType = "unassigned"

Ended == pc = "done"

\* The while loop has been left.
Selected == pc \in {"assign", "notify"} \/ (Ended /\ needed > 0)

AddedKinds == {"removed_singular", "removed_plural", "update"}

Failed(c) == c.result # "ok"

\* ---------------------------------------------------------------- C1
\* C1 as stated: a run on opened, ready_for_review or unassigned that ends
\* without an API failure leaves the pull request with at least 2 assignees
\* (current plus sent) whenever the candidate pool is not empty.
C1_AtLeastTwoWheneverCandidates ==
    (/\ Ended /\ exitCode = 0 /\ pr.fetched
     /\ eventType \in {"opened", "ready_for_review", "unassigned"}
     /\ PoolSet # {})
        => Cur + Len(Sent) >= Target

\* C1 amended: when assignment is attempted (opened on a non-draft,
\* ready_for_review, unassigned) and the run ends without an API failure,
\* a pull request with fewer than 2 assignees ends up with
\* min(2, current + |pool|) of them, so with at least 2 exactly when the pool
\* holds at least 2 - current candidates; an opened event on a draft and a
\* pull request already at 2 add nobody.
C1_ReachesTargetOrExhaustsPool ==
    (Ended /\ exitCode = 0 /\ pr.fetched) =>
        IF Attempted
        THEN Cur + Len(Sent) = Max(Cur, Min(Target, Cur + Cardinality(PoolSet)))
        ELSE Sent = <<>>

C1_Witness ==
    /\ Ended /\ exitCode = 0 /\ Attempted
    /\ Cur = 0 /\ Len(Sent) = 2 /\ Cardinality(PoolSet) = 3

\* ---------------------------------------------------------------- C2
\* C2: with n = 2 - current and 0 < n <= |P|, the list the selection loop
\* leaves, and the list sent to the API, hold exactly n logins, pairwise
\* distinct, all from the pool P, whatever indices were drawn.
ExactlyFromPool(list, n) ==
    /\ Len(list) = n
    /\ Distinct(list)
    /\ Range(list) \subseteq PoolSet

C2_ExactlyNDistinctFromPool ==
    (pr.fetched /\ 0 < Target - Cur /\ Target - Cur <= Cardinality(PoolSet)) =>
        /\ Selected => ExactlyFromPool(toAdd, Target - Cur)
        /\ (Ended /\ exitCode = 0 /\ Attempted) => ExactlyFromPool(Sent, Target - Cur)

\* The example of the claim: no assignee, author alice, all four assignable.
C2_Witness ==
    /\ Ended /\ exitCode = 0
    /\ Cur = 0 /\ pr.author = "alice"
    /\ AssignableKeys = MapLoginSet
    /\ PoolSet = {"bob", "carol", "dave"}
    /\ Sent = <<"dave", "bob">>

\* ---------------------------------------------------------------- C3
\* C3: with n > |P| the selector returns exactly the |P| logins of the pool;
\* the "no available candidates" message is produced if and only if the
\* selection ran with an empty pool, and with 0 < |P| < n all |P| logins are
\* sent and that message is not produced.
C3_PartialAndNoCandidates ==
    /\ (pr.fetched /\ Target - Cur > Cardinality(PoolSet)) =>
          /\ Selected =>
                /\ Len(toAdd) = Cardinality(PoolSet)
                /\ Range(toAdd) = PoolSet
          /\ (Ended /\ exitCode = 0 /\ Attempted) =>
                /\ Len(Sent) = Cardinality(PoolSet)
                /\ Range(Sent) = PoolSet
          /\ PoolSet # {} => msg.kind # "no_candidates"
    /\ msg.kind = "no_candidates" =>
          Attempted /\ Target - Cur > 0 /\ PoolSet = {}
    /\ (Ended /\ Attempted /\ Target - Cur > 0 /\ PoolSet = {}) =>
          msg.kind = "no_candidates"

C3_Witness ==
    /\ Ended /\ exitCode = 0 /\ Attempted
    /\ Cur = 0 /\ Cardinality(PoolSet) = 1
    /\ Len(Sent) = 1 /\ msg.kind = "update"

\* ---------------------------------------------------------------- C4
\* C4: every login selected or sent to the add-assignees call is a key of
\* the user map whose assign flag is not false, is not the author and is
\* not a current assignee.
C4_SentWithinPool ==
    /\ \A i \in 1..Len(addCalls) : Range(addCalls[i]) \subseteq EligibleSet
    /\ Range(toAdd) \subseteq EligibleSet
    /\ Range(toAdd) \subseteq PoolSet

\* The author and the current assignee are assignable keys of the map.
C4_Witness ==
    /\ addCalls # <<>>
    /\ pr.author \in AssignableKeys
    /\ Cur = 1 /\ Range(pr.assignees) \subseteq AssignableKeys

\* ---------------------------------------------------------------- C5
\* C5: on unassigned with a non-empty removed login, that login is not a
\* candidate and is never selected or sent; on any other event the
\* candidates are all assignable keys but the author, the removed login
\* included.
C5_RemovedExcludedOnlyOnUnassigned ==
    /\ (eventType = "unassigned" /\ removedAssignee # Unset) =>
          /\ removedAssignee \notin Range(candidates)
          /\ removedAssignee \notin Range(toAdd)
          /\ \A i \in 1..Len(addCalls) : removedAssignee \notin Range(addCalls[i])
    /\ (eventType # "unassigned"
          /\ pc \notin {"getPRDetails", "getUserMap"} /\ pr.fetched) =>
          Range(candidates) = AssignableKeys \ {pr.author}
    /\ (pc \notin {"getPRDetails", "getUserMap"} /\ pr.fetched) =>
          Range(Available(candidates, pr)) = PoolSet

\* The example of the claim: bob removed, carol assigned, author outside.
C5_Witness ==
    /\ Ended /\ exitCode = 0
    /\ eventType = "unassigned" /\ removedAssignee = "bob"
    /\ pr.assignees = <<"carol">> /\ pr.author = Outsider
    /\ AssignableKeys = MapLoginSet
    /\ Range(available) = {"alice", "dave"}
    /\ Len(Sent) = 1

\* ---------------------------------------------------------------- C6
\* C6: on an opened event for a draft, and on any event other than opened,
\* ready_for_review and unassigned, there is no add-assignees call and no
\* webhook POST.
C6_NoActionUnlessAttempted ==
    (addCalls # <<>> \/ posts # <<>>) => Attempted

C6_Witness ==
    /\ Ended /\ pr.fetched /\ slackWebhook
    /\ eventType = "opened" /\ pr.draft
    /\ Cur = 0 /\ PoolSet # {}

\* ---------------------------------------------------------------- C7
\* C7: a fetched pull request with 2 or more assignees gets no
\* add-assignees call and no webhook POST, and the run ends with status 0.
C7_EnoughAssigneesNoAction ==
    (pr.fetched /\ Cur >= Target) =>
        /\ addCalls = <<>>
        /\ posts = <<>>
        /\ exitCode # 1
        /\ msg = NoMsg

C7_Witness ==
    /\ Ended /\ exitCode = 0 /\ slackWebhook
    /\ eventType = "unassigned" /\ Cur >= Target
    /\ PoolSet # {}

\* ---------------------------------------------------------------- C8
\* C8: a failed external call is the last one of the run and the run ends at
\* once with status 1; a run without a failed call ends with status 0.
C8_FailureExitsOne ==
    /\ \A i \in 1..Len(trace) :
          Failed(trace[i]) => (i = Len(trace) /\ Ended /\ exitCode = 1)
    /\ (Ended /\ \A i \in 1..Len(trace) : ~Failed(trace[i])) => exitCode = 0

\* ---------------------------------------------------------------- C9
\* C9: with a user map file that is missing, unparsable, empty or without a
\* users mapping, the map and the pool are empty, nothing is sent, only a
\* rejected call makes the run exit 1, and an attempted assignment with
\* fewer than 2 assignees produces the "no available candidates" message.
C9_BadMapDegradesToEmpty ==
    userMapFile.kind # "ok" =>
        /\ userMap = <<>> /\ candidates = <<>> /\ pool = <<>> /\ toAdd = <<>>
        /\ addCalls = <<>>
        /\ exitCode = 1 => (trace # <<>> /\ trace[Len(trace)].result = "throw")
        /\ (Ended /\ Attempted /\ Cur < Target) => msg.kind = "no_candidates"
        /\ msg.kind \in {"null", "no_candidates"}

C9_Witness ==
    /\ Ended /\ exitCode = 0
    /\ userMapFile.kind = "missing"
    /\ msg.kind = "no_candidates"
    /\ posts # <<>>

\* ---------------------------------------------------------------- C10
\* C10: at most one add-assignees call and one webhook POST; a POST needs a
\* message and a configured webhook; a message announcing added assignees
\* is posted only after the add call returned successfully with the
\* non-empty list it announces.
C10_BoundedOrderedEffects ==
    /\ Len(addCalls) <= 1
    /\ Len(posts) <= 1
    /\ Cardinality({i \in 1..Len(trace) : trace[i].op = "ADD"}) = Len(addCalls)
    /\ Cardinality({i \in 1..Len(trace) : trace[i].op = "POST"}) = Len(posts)
    /\ posts # <<>> => (slackWebhook /\ msg # NoMsg /\ posts[1] = msg)
    /\ (posts # <<>> /\ posts[1].kind \in AddedKinds) =>
          /\ Len(trace) = 3
          /\ trace[2] = Call("ADD", "ok")
          /\ trace[3].op = "POST"
          /\ posts[1].users = Sent
          /\ Sent # <<>>

C10_Witness ==
    /\ Ended /\ exitCode = 0
    /\ posts # <<>> /\ posts[1].kind = "removed_plural"
    /\ Len(Sent) = 2
====
